---- MODULE Spec2Model ----
(***************************************************************************)
(* Vector index subsystem of the stack_ai vector database: LinearIndex,    *)
(* BallTree, the IndexBuilder that owns one of each, and the chunk,        *)
(* document and library endpoints that drive them.                         *)
(*                                                                         *)
(* Numbers.  Coordinates are fixed-point integers: the real number r is    *)
(* carried as r * Scale.  Stored vectors and queries are taken on the      *)
(* first axis (every other coordinate is 0), so that every Euclidean norm  *)
(* the code computes is an exact integer here; Div and Isqrt fail loudly   *)
(* if a mean or a norm were ever inexact.                                  *)
(***************************************************************************)
EXTENDS Integers, Sequences, FiniteSets, TLC

\* ---------------------------------------------------------------- bounds
D == 2
LeafSize == 1
MaxCoord == 5
MaxEntries == 3
MaxK == 3
MaxAdds == 1
NThreads == 2
Scale == 60 * 64

Coords == 0..MaxCoord
Ks == 0..MaxK

\* ------------------------------------------------------------ arithmetic
Abs(x) == IF x < 0 THEN -x ELSE x

Min(a, b) == IF a < b THEN a ELSE b

Max(a, b) == IF a < b THEN b ELSE a

\* exact division (the quotient must be an integer of the fixed-point grid)
Div(a, n) == CHOOSE q \in {a \div n} : q * n = a

RECURSIVE SqrtSearch(_, _, _)
SqrtSearch(n, lo, hi) ==
    IF lo >= hi THEN lo
    ELSE LET mid == (lo + hi + 1) \div 2
         IN IF mid * mid <= n THEN SqrtSearch(n, mid, hi)
                              ELSE SqrtSearch(n, lo, mid - 1)

\* exact square root of n, known to lie in lo..hi
Isqrt(n, lo, hi) == CHOOSE r \in {SqrtSearch(n, lo, hi)} : r * r = n

RECURSIVE SumSeq(_)
SumSeq(s) == IF s = <<>> THEN 0 ELSE Head(s) + SumSeq(Tail(s))

RECURSIVE MaxSeq(_)
MaxSeq(s) == IF Len(s) = 1 THEN s[1] ELSE Max(s[1], MaxSeq(Tail(s)))

\* ---------------------------------------------------------------- numpy
\* a - b on arrays of one shape
VSub(a, b) == [i \in 1..Len(a) |-> a[i] - b[i]]

\* np.linalg.norm (the norm lies between the largest |v[i]| and their sum;
\* the norm of an array of no element is 0)
Norm(v) ==
    LET abs == [i \in 1..Len(v) |-> Abs(v[i])]
    IN IF v = <<>> THEN 0
       ELSE Isqrt(SumSeq([i \in 1..Len(v) |-> v[i] * v[i]]), MaxSeq(abs), SumSeq(abs))

\* np.linalg.norm(a - b)
Dist(a, b) == Norm(VSub(a, b))

\* np.mean(points, axis=0)
Mean(points) ==
    [i \in 1..Len(points[1]) |->
        Div(SumSeq([j \in 1..Len(points) |-> points[j][i]]), Len(points))]

\* arrays of different shapes in one list or one expression: numpy raises
\* ValueError (no length is 1, so nothing broadcasts)
SameShape(points) == \A i, j \in 1..Len(points) : Len(points[i]) = Len(points[j])

\* ------------------------------------------------------------------ ids
\* a chunk id is the UUID object or the string str(UUID)
Uuid(u) == [t |-> "uuid", u |-> u]

Str(id) == [t |-> "str", u |-> id.u]

IsUuid(id) == id.t = "uuid"

\* the vector of dimension n at coordinate x of the first axis
Vec(x, n) == [i \in 1..n |-> IF i = 1 THEN x * Scale ELSE 0]

\* --------------------------------------------------------------- results
\* what a call gives back: a list of (id, distance) pairs, or the exception
\* that left the call
Ok(hits) == [status |-> "ok", hits |-> hits]

Raise(exc) == [status |-> exc, hits |-> <<>>]

\* the elements of seq at the positions in S, in their order, from position i on
RECURSIVE Pick(_, _, _)
Pick(seq, S, i) ==
    IF i > Len(seq) THEN <<>>
    ELSE (IF i \in S THEN <<seq[i]>> ELSE <<>>) \o Pick(seq, S, i + 1)

\* ---------------------------------------------------------- LinearIndex
LinearIndexInit(vectors, ids) == [vectors |-> vectors, ids |-> ids]

LinearAddVector(lin, vector, chunk_id) ==
    IF vector = <<>> THEN lin
    ELSE IF ~IsUuid(chunk_id) THEN lin
    ELSE [vectors |-> Append(lin.vectors, vector),
          ids     |-> Append(lin.ids, chunk_id)]

\* np.argsort(distances)[:n]: the sort is not stable, so entries at equal
\* distance come in any order; every outcome is a prefix of some ascending
\* arrangement of the positions
Argsort(distances, n) ==
    {s \in [1..n -> 1..Len(distances)] :
        /\ \A i, j \in 1..n : i < j => s[i] # s[j] /\ distances[s[i]] <= distances[s[j]]
        /\ \A m \in 1..Len(distances) :
              (\A i \in 1..n : s[i] # m) =>
                  \A i \in 1..n : distances[s[i]] <= distances[m]}

\* LinearIndex.search: the set of results the call can give
LinearSearch(lin, query, k) ==
    IF lin.vectors = <<>> THEN {Ok(<<>>)}
    ELSE IF query = <<>> THEN {Ok(<<>>)}
    ELSE IF Len(query) # Len(lin.vectors[1]) THEN {Ok(<<>>)}
    ELSE IF \E i \in 1..Len(lin.vectors) : Len(lin.vectors[i]) # Len(query)
         THEN {Raise("ValueError")}
    ELSE LET distances == [i \in 1..Len(lin.vectors) |-> Dist(lin.vectors[i], query)]
             actual_k  == Min(k, Len(distances))
         IN {Ok([j \in 1..actual_k |-> <<lin.ids[s[j]], distances[s[j]]>>]) :
                 s \in Argsort(distances, actual_k)}

\* ---------------------------------------------------------------- heapq
\* tuple order on (-distance, str(id)); strings of ids are ordered as the ids
TupleLt(a, b) == a[1] < b[1] \/ (a[1] = b[1] /\ a[2].u < b[2].u)

RECURSIVE SiftDown(_, _, _, _)
SiftDown(heap, startpos, pos, newitem) ==
    IF pos > startpos /\ TupleLt(newitem, heap[pos \div 2])
    THEN SiftDown([heap EXCEPT ![pos] = heap[pos \div 2]], startpos, pos \div 2, newitem)
    ELSE [heap EXCEPT ![pos] = newitem]

RECURSIVE SiftUpLoop(_, _)
SiftUpLoop(heap, pos) ==
    LET childpos == 2 * pos
        rightpos == childpos + 1
        c == IF rightpos <= Len(heap) /\ ~TupleLt(heap[childpos], heap[rightpos])
             THEN rightpos ELSE childpos
    IN IF childpos <= Len(heap)
       THEN SiftUpLoop([heap EXCEPT ![pos] = heap[c]], c)
       ELSE <<heap, pos>>

SiftUp(heap, pos) ==
    LET r == SiftUpLoop(heap, pos)
    IN SiftDown(r[1], pos, r[2], heap[pos])

HeapPush(heap, item) == SiftDown(Append(heap, item), 1, Len(heap) + 1, item)

HeapPushPop(heap, item) ==
    IF heap # <<>> /\ TupleLt(heap[1], item)
    THEN SiftUp([heap EXCEPT ![1] = item], 1)
    ELSE heap

\* list.sort(key=lambda x: x[1]): stable, ascending on the second component
RECURSIVE InsertByKey(_, _)
InsertByKey(sorted, x) ==
    IF sorted = <<>> THEN <<x>>
    ELSE IF x[2] < sorted[1][2] THEN <<x>> \o sorted
    ELSE <<sorted[1]>> \o InsertByKey(Tail(sorted), x)

RECURSIVE SortByKey(_)
SortByKey(s) ==
    IF s = <<>> THEN <<>>
    ELSE InsertByKey(SortByKey(SubSeq(s, 1, Len(s) - 1)), s[Len(s)])

\* ------------------------------------------------------------- BallTree
None == [kind |-> "none"]

IsNone(n) == n.kind = "none"

\* BallTreeNode.__init__ (points is not empty wherever the tree makes a node)
BallTreeNode(points, ids) ==
    LET centroid == Mean(points)
    IN [kind     |-> "node",
        points   |-> points,
        ids      |-> ids,
        left     |-> None,
        right    |-> None,
        centroid |-> centroid,
        radius   |-> MaxSeq([i \in 1..Len(points) |-> Dist(points[i], centroid)])]

is_leaf(node) == IsNone(node.left) /\ IsNone(node.right)

\* the (i, j), i < j, the double loop of _split_node ends with: the first
\* pair in loop order at the largest distance (the loop replaces on > only)
FarthestPair(points) ==
    LET pairs == {p \in (1..Len(points)) \X (1..Len(points)) : p[1] < p[2]}
        dist(p) == Dist(points[p[1]], points[p[2]])
        best == {p \in pairs : \A r \in pairs : dist(r) <= dist(p)}
    IN IF pairs = {} THEN <<1, 1>>
       ELSE CHOOSE p \in best :
               \A r \in best : p[1] < r[1] \/ (p[1] = r[1] /\ p[2] <= r[2])

\* a split that always cuts the points at the median index
SplitAtMedian(node) ==
    LET n == Len(node.points)
        Side(S) == BallTreeNode(Pick(node.points, S, 1), Pick(node.ids, S, 1))
    IN [node EXCEPT !.left  = Side(1..(n \div 2)),
                    !.right = Side(((n \div 2) + 1)..n)]

\* _split_node: the node with its two children set (its points are kept;
\* the callers clear them)
SplitNode(node) ==
    LET n == Len(node.points)
        Children(LL, RR) ==
            [node EXCEPT
               !.left  = BallTreeNode(Pick(node.points, LL, 1), Pick(node.ids, LL, 1)),
               !.right = BallTreeNode(Pick(node.points, RR, 1), Pick(node.ids, RR, 1))]
        Partition(L) ==
            IF L = {} \/ L = 1..n
            THEN Children(1..(n \div 2), ((n \div 2) + 1)..n)
            ELSE Children(L, (1..n) \ L)
        Nearer(p1, p2) ==
            {i \in 1..n : Dist(node.points[i], p1) < Dist(node.points[i], p2)}
        Around(pp) == Partition(Nearer(node.points[pp[1]], node.points[pp[2]]))
    IN Around(FarthestPair(node.points))

RECURSIVE Build(_, _)
Build(points, ids) ==
    IF points = <<>> THEN None
    ELSE IF Len(points) <= LeafSize THEN BallTreeNode(points, ids)
    ELSE LET Children(node) ==
                 [node EXCEPT !.left   = Build(node.left.points, node.left.ids),
                              !.right  = Build(node.right.points, node.right.ids),
                              !.points = <<>>,
                              !.ids    = <<>>]
         IN Children(SplitNode(BallTreeNode(points, ids)))

\* BallTree.__init__.  _build hands self.vectors and self.ids themselves to
\* the root node; when the root stays a leaf its points and ids are those
\* same list objects (shared), until a split rebinds the node's lists.
BallTreeInit(vectors, ids) ==
    [vectors |-> vectors,
     ids     |-> ids,
     root    |-> Build(vectors, ids),
     shared  |-> vectors # <<>> /\ Len(vectors) <= LeafSize]

\* an insert that leaves the balls on its path as they were
KeepNodeBounds(node) == node

\* _update_node_bounds
UpdateNodeBounds(node) ==
    IF is_leaf(node)
    THEN IF Len(node.points) > 0
         THEN LET centroid == Mean(node.points)
              IN [node EXCEPT
                    !.centroid = centroid,
                    !.radius = MaxSeq([i \in 1..Len(node.points) |->
                                          Dist(node.points[i], centroid)])]
         ELSE node
    ELSE IF ~IsNone(node.left) /\ ~IsNone(node.right)
    THEN LET centroid == [i \in 1..Len(node.left.centroid) |->
                             Div(node.left.centroid[i] + node.right.centroid[i], 2)]
             rad_left  == Dist(node.left.centroid, centroid) + node.left.radius
             rad_right == Dist(node.right.centroid, centroid) + node.right.radius
         IN [node EXCEPT !.centroid = centroid, !.radius = Max(rad_left, rad_right)]
    ELSE node

\* _insert: the node after the call, and whether numpy raised ValueError on
\* arrays of different shapes (what the call had changed by then stays)
RECURSIVE Insert(_, _, _)
Insert(node, point, id) ==
    LET Leaf(grown) ==
            IF ~SameShape(grown.points)
            THEN [node |-> grown, raised |-> TRUE]
            ELSE IF Len(grown.points) > LeafSize
            THEN [node |-> UpdateNodeBounds([SplitNode(grown) EXCEPT !.points = <<>>,
                                                                     !.ids = <<>>]),
                  raised |-> FALSE]
            ELSE [node |-> UpdateNodeBounds(grown), raised |-> FALSE]
        Back(n, raised) ==
            IF raised THEN [node |-> n, raised |-> TRUE]
            ELSE [node |-> UpdateNodeBounds(n), raised |-> FALSE]
        Left(r) == Back([node EXCEPT !.left = r.node], r.raised)
        Right(r) == Back([node EXCEPT !.right = r.node], r.raised)
    IN IF is_leaf(node)
       THEN Leaf([node EXCEPT !.points = Append(node.points, point),
                              !.ids    = Append(node.ids, id)])
       ELSE IF Len(point) # Len(node.left.centroid)
       THEN [node |-> node, raised |-> TRUE]
       ELSE IF Dist(point, node.left.centroid) < Dist(point, node.right.centroid)
       THEN Left(Insert(node.left, point, id))
       ELSE Right(Insert(node.right, point, id))

\* an add that stores the vector and the id but leaves an existing tree alone
BallAddVectorUnindexed(bt, vector, chunk_id) ==
    IF vector = <<>> \/ ~IsUuid(chunk_id)
    THEN [tree |-> bt, raised |-> FALSE]
    ELSE [tree |-> [bt EXCEPT
                      !.vectors = Append(bt.vectors, vector),
                      !.ids     = Append(bt.ids, chunk_id),
                      !.root    = IF IsNone(bt.root)
                                  THEN Build(<<vector>>, <<chunk_id>>)
                                  ELSE bt.root],
          raised |-> FALSE]

\* BallTree.add_vector: the tree object after the call and whether it raised.
\* While the root leaf shares its lists with self.vectors / self.ids, the
\* append to the flat lists is already an append to the leaf, and _insert
\* appends once more to the same lists.
BallAddVector(bt, vector, chunk_id) ==
    IF vector = <<>> \/ ~IsUuid(chunk_id)
    THEN [tree |-> bt, raised |-> FALSE]
    ELSE LET flat == [bt EXCEPT !.vectors = Append(bt.vectors, vector),
                                !.ids     = Append(bt.ids, chunk_id)]
             Shared(r) ==
                 [tree |-> [vectors |-> Append(flat.vectors, vector),
                            ids     |-> Append(flat.ids, chunk_id),
                            root    |-> r.node,
                            shared  |-> is_leaf(r.node)],
                  raised |-> r.raised]
             Own(r) == [tree |-> [flat EXCEPT !.root = r.node], raised |-> r.raised]
         IN IF IsNone(bt.root)
            THEN [tree |-> [flat EXCEPT !.root = Build(<<vector>>, <<chunk_id>>)],
                  raised |-> FALSE]
            ELSE IF bt.shared
            THEN Shared(Insert([bt.root EXCEPT !.points = flat.vectors,
                                               !.ids    = flat.ids],
                               vector, chunk_id))
            ELSE Own(Insert(bt.root, vector, chunk_id))

\* the loop over a leaf's points in _search_k, from position i on
RECURSIVE LeafScan(_, _, _, _, _)
LeafScan(node, query, k, heap, i) ==
    IF i > Len(node.points) THEN heap
    ELSE LET item == <<-Dist(query, node.points[i]), Str(node.ids[i])>>
         IN LeafScan(node, query, k,
                     IF Len(heap) < k THEN HeapPush(heap, item)
                                      ELSE HeapPushPop(heap, item),
                     i + 1)

\* _search_k for k > 0 on a tree whose points have the query's shape:
\* the heap after the call
RECURSIVE SearchK(_, _, _, _)
SearchK(node, query, k, heap) ==
    IF IsNone(node) THEN heap
    ELSE IF Len(heap) = k /\ Dist(query, node.centroid) - node.radius > -heap[1][1]
    THEN heap
    ELSE IF is_leaf(node) THEN LeafScan(node, query, k, heap, 1)
    ELSE LET Visit(first, second) ==
                 SearchK(second, query, k, SearchK(first, query, k, heap))
         IN IF Dist(query, node.left.centroid) < Dist(query, node.right.centroid)
            THEN Visit(node.left, node.right)
            ELSE Visit(node.right, node.left)

\* np.array(query, dtype=np.float32) on one component: the nearest number
\* with Significand32 significant bits, halves to the even neighbour
Significand32 == 24

RECURSIVE Ulp(_, _)
Ulp(x, u) == IF Abs(x) < (2 ^ Significand32) * u THEN u ELSE Ulp(x, 2 * u)

Float32(x) ==
    LET u == Ulp(x, 1)
        lo == (x \div u) * u
        r == x - lo
    IN IF 2 * r < u THEN lo
       ELSE IF 2 * r > u THEN lo + u
       ELSE IF (lo \div u) % 2 = 0 THEN lo ELSE lo + u

\* every point stored in the leaves under node
RECURSIVE TreePoints(_)
TreePoints(node) ==
    IF IsNone(node) THEN <<>>
    ELSE node.points \o TreePoints(node.left) \o TreePoints(node.right)

\* BallTree.search.  With k = 0 the pruning test reads heap[0] of the empty
\* heap (IndexError); a stored point of another shape than the query makes
\* numpy raise ValueError in the leaf loop.
BallSearch(bt, query, k) ==
    IF bt.vectors = <<>> \/ IsNone(bt.root) THEN Ok(<<>>)
    ELSE IF Len(query) # Len(bt.root.centroid) THEN Ok(<<>>)
    ELSE IF k = 0 THEN Raise("IndexError")
    ELSE IF \E i \in 1..Len(TreePoints(bt.root)) :
                Len(TreePoints(bt.root)[i]) # Len(query)
    THEN Raise("ValueError")
    ELSE LET query_vec == [i \in 1..Len(query) |-> Float32(query[i])]
             final_results(results_heap) ==
                 [i \in 1..Len(results_heap) |->
                     <<results_heap[i][2], results_heap[i][1]>>]
         IN Ok(SortByKey(final_results(SearchK(bt.root, query_vec, k, <<>>))))

\* the (id, distance) entries a tree holds in its leaves
RECURSIVE TreeIds(_)
TreeIds(node) ==
    IF IsNone(node) THEN <<>>
    ELSE node.ids \o TreeIds(node.left) \o TreeIds(node.right)

\* --------------------------------------------------------- IndexBuilder
\* SentenceTransformer.encode: a text is named by the coordinate it embeds to
embed(text) == Vec(text, D)

Texts == Coords

\* the ids and vectors build_index collects from the chunks of the store,
\* in id order: ids.append(str(chunk.id)); vectors.append(chunk.embedding)
RECURSIVE ChunkList(_, _)
ChunkList(store, S) ==
    IF S = {} THEN <<>>
    ELSE LET c == CHOOSE x \in S : \A y \in S : x <= y
         IN <<<<Str(Uuid(c)), store[c].embedding>>>> \o ChunkList(store, S \ {c})

BuildIds(store) ==
    LET l == ChunkList(store, DOMAIN store) IN [i \in 1..Len(l) |-> l[i][1]]

BuildVectors(store) ==
    LET l == ChunkList(store, DOMAIN store) IN [i \in 1..Len(l) |-> l[i][2]]

\* an add_vector that reaches the first index only
AddToFirstIndexOnly(bt, lin, vector, id) ==
    LET First(r) == [ball |-> r.tree, linear |-> lin, raised |-> r.raised]
    IN First(BallAddVector(bt, vector, id))

\* IndexBuilder.add_vector: under the lock, index by index in the order of
\* index_types (["ball_tree", "linear"]); an exception leaves the loop
IndexBuilderAddVector(bt, lin, vector, id) ==
    LET Linear(r) ==
            IF r.raised
            THEN [ball |-> r.tree, linear |-> lin, raised |-> TRUE]
            ELSE [ball |-> r.tree, linear |-> LinearAddVector(lin, vector, id),
                  raised |-> FALSE]
    IN Linear(BallAddVector(bt, vector, id))

IndexTypes == {"ball_tree", "linear"}

\* the index names a search request can carry: the configured ones and one
\* that chunks.py does not configure
IndexNames == IndexTypes \cup {"kd_tree"}

\* self.index[index_type].search(query_embedding, k): the possible results;
\* a name that is not a key of self.index raises KeyError
IndexSearch(bt, lin, index_type, query, k) ==
    IF index_type \notin IndexTypes THEN {Raise("KeyError")}
    ELSE IF index_type = "linear" THEN LinearSearch(lin, query, k)
    ELSE {BallSearch(bt, query, k)}

\* chunk_service.get_chunk(chunk_id) on a store: the row under that id, given
\* as a UUID or as its string, or None
get_chunk(chunkstore, chunk_id) ==
    IF chunk_id.u \in DOMAIN chunkstore
    THEN [kind |-> "chunk", id |-> chunk_id.u, text |-> chunkstore[chunk_id.u].text]
    ELSE None

\* a search_index that leaves out the hits whose chunk the store lacks
ResolvableOnly(chunkstore, result) ==
    LET found == {j \in 1..Len(result) : result[j][1].u \in DOMAIN chunkstore}
        kept == Pick(result, found, 1)
    IN [j \in 1..Len(kept) |-> get_chunk(chunkstore, kept[j][1])]

\* search_index after the index search: list_of_chunks, one element per
\* (chunk_id, distance) of result, the chunk or else a dict of id and
\* distance
search_index_result(chunkstore, result) ==
    [j \in 1..Len(result) |->
        IF get_chunk(chunkstore, result[j][1]) # None
        THEN get_chunk(chunkstore, result[j][1])
        ELSE [kind |-> "dict", id |-> result[j][1], distance |-> result[j][2]]]

\* [chunk.text for chunk in list_of_chunks] in search_chunks: a dict has no
\* attribute text, so the comprehension raises AttributeError on it
ChunkTexts(list_of_chunks) ==
    IF \E j \in 1..Len(list_of_chunks) : list_of_chunks[j].kind = "dict"
    THEN [texts |-> <<>>, raised |-> TRUE]
    ELSE [texts |-> [j \in 1..Len(list_of_chunks) |-> list_of_chunks[j].text],
          raised |-> FALSE]

\* ---------------------------------------------------------------- state
VARIABLES
    libraries,   \* ids of the libraries in the store
    documents,   \* document id -> library id, for the documents in the store
    chunks,      \* chunk id -> [document_id, text, embedding], for the chunks in the store
    nextId,      \* the next fresh chunk id
    linear,      \* index_manager.index["linear"]
    ball,        \* index_manager.index["ball_tree"]
    resp,        \* the last call and what it gave back
    lock,        \* index_manager._lock: the thread that holds it, or 0
    requests     \* thread -> the request it serves and where it stands in it

vars == <<libraries, documents, chunks, nextId, linear, ball, resp, lock, requests>>

\* the threads that serve requests, and their part of the state
Threads == 1..NThreads

conc == <<lock, requests>>

store == <<libraries, documents, chunks, nextId>>

NoHits == Ok(<<>>)

\* what a service call hands back to the endpoint: nothing the endpoint
\* uses, a bool, a row, lists of ids, or an exception of the store
Returned(kind, ids) == [kind |-> kind, ids |-> ids]

\* a response record: the call, the HTTP status (or exception), the id and
\* vector it was about, the chunk ids it deleted from the store, what the
\* service returned, and for a search the index, query, k, the
\* (id, distance) list of the index, the list search_index returned and the
\* texts of the response
Resp(op, status) ==
    [op |-> op, status |-> status, id |-> 0, vector |-> <<>>, deleted |-> {},
     returned |-> Returned("none", {}),
     index |-> "", k |-> 0, result |-> NoHits, list_of_chunks |-> <<>>,
     texts |-> <<>>]

\* a thread with no request in hand; status is that of its last request
Idle ==
    [pc |-> "idle", id |-> 0, text |-> 0, vector |-> <<>>, index |-> "", k |-> 0,
     result |-> NoHits, status |-> ""]

\* one request at a time: nobody holds the lock, no thread is in a request
OneAtATime == lock = 0 /\ requests = [t \in Threads |-> Idle]

MaxInit == LeafSize + 1

\* the text and document of the chunks the store holds at start
InitText(c) == (c - 1) % (MaxCoord + 1)

InitDocument(c) == ((c - 1) % 2) + 1

\* the state after the application is imported: a store with one library,
\* its two documents and some chunks, and the IndexBuilder built over it
Init ==
    \E n \in 1..MaxInit :
        /\ libraries = {1}
        /\ documents = [d \in 1..2 |-> 1]
        /\ chunks = [c \in 1..n |-> [document_id |-> InitDocument(c),
                                     text        |-> InitText(c),
                                     embedding   |-> embed(InitText(c))]]
        /\ nextId = n + 1
        /\ linear = LinearIndexInit(BuildVectors(chunks), BuildIds(chunks))
        /\ ball = BallTreeInit(BuildVectors(chunks), BuildIds(chunks))
        /\ resp = Resp("init", "")
        /\ OneAtATime

\* the store without the chunks in S
WithoutChunks(S) == [c \in DOMAIN chunks \ S |-> chunks[c]]

ChunksOfDocument(d) == {c \in DOMAIN chunks : chunks[c].document_id = d}

PageLimit == 100

\* DocumentRepository.get_by_library_id(library_id): skip = 0, limit = 100
get_by_library_id(l) ==
    LET all == {d \in DOMAIN documents : documents[d] = l}
    IN {d \in all : Cardinality({e \in all : e < d}) < PageLimit}

\* index_manager.delete_vector(chunk_id): IndexBuilder defines no
\* delete_vector (and no index a delete), so the call raises AttributeError
\* and no index changes
IndexBuilderDeleteVector(bt, lin, id) ==
    [ball |-> bt, linear |-> lin, raised |-> "AttributeError"]

DocumentsOfLibrary(l) == {d \in DOMAIN documents : documents[d] = l}

DocIds == 1..3

\* the number of add_vector calls since the start (build_index stores
\* str(id), add_vector the UUID itself)
Added == Cardinality({i \in 1..Len(linear.ids) : IsUuid(linear.ids[i])})

ChunkIds == 1..(MaxInit + MaxAdds)

\* ChunkService.create_chunk: the chunk it commits, its embedding computed
\* from its text
create_chunk(document_id, text) ==
    [document_id |-> document_id, text |-> text, embedding |-> embed(text)]

\* ChunkService.update_chunk with a new text: the chunk it commits, its
\* embedding computed anew
update_chunk(chunk, text) ==
    [chunk EXCEPT !.text = text, !.embedding = embed(text)]

\* an endpoint that calls add_vector whatever the service call did
AddBeforeCommit(committed, bt, lin, vector, id) ==
    IndexBuilderAddVector(bt, lin, vector, id)

\* the body of the create and update endpoints: the service call commits
\* the chunk, then index_manager.add_vector; an exception of the service
\* leaves the endpoint before add_vector
AddAfterCommit(committed, bt, lin, vector, id) ==
    IF committed THEN IndexBuilderAddVector(bt, lin, vector, id)
    ELSE [ball |-> bt, linear |-> lin, raised |-> FALSE]

\* POST /chunks/; commit tells whether the store accepts the commit
CreateChunk(document_id, text, commit) ==
    /\ UNCHANGED conc
    /\ Added < MaxAdds
    /\ IF document_id \notin DOMAIN documents \/ ~commit
       THEN \E r \in {AddAfterCommit(FALSE, ball, linear, embed(text), Uuid(nextId))} :
               /\ ball' = r.ball
               /\ linear' = r.linear
               /\ resp' = [Resp("create_chunk", "500")
                              EXCEPT !.returned = Returned("raised", {})]
               /\ UNCHANGED store
       ELSE LET id == nextId
                chunk == create_chunk(document_id, text)
            IN \E r \in {AddAfterCommit(TRUE, ball, linear, chunk.embedding, Uuid(id))} :
                  /\ chunks' = [c \in DOMAIN chunks \cup {id} |->
                                   IF c = id THEN chunk ELSE chunks[c]]
                  /\ nextId' = nextId + 1
                  /\ ball' = r.ball
                  /\ linear' = r.linear
                  /\ resp' = [Resp("create_chunk", IF r.raised THEN "400" ELSE "200")
                                 EXCEPT !.id = id, !.vector = chunk.embedding,
                                        !.returned = Returned("chunk", {id})]
                  /\ UNCHANGED <<libraries, documents>>

\* PUT /chunks/{chunk_id} with a new text; commit tells whether the store
\* accepts the commit
UpdateChunk(chunk_id, text, commit) ==
    /\ UNCHANGED conc
    /\ Added < MaxAdds
    /\ IF chunk_id \notin DOMAIN chunks
       THEN /\ resp' = [Resp("update_chunk", "404") EXCEPT !.id = chunk_id]
            /\ UNCHANGED <<store, linear, ball>>
       ELSE LET updated == update_chunk(chunks[chunk_id], text)
            IN \E r \in {AddAfterCommit(commit, ball, linear, updated.embedding,
                                         Uuid(chunk_id))} :
                  /\ chunks' = IF commit THEN [chunks EXCEPT ![chunk_id] = updated]
                                ELSE chunks
                  /\ ball' = r.ball
                  /\ linear' = r.linear
                  /\ resp' = IF commit
                              THEN [Resp("update_chunk", IF r.raised THEN "500" ELSE "200")
                                      EXCEPT !.id = chunk_id, !.vector = updated.embedding,
                                             !.returned = Returned("chunk", {chunk_id})]
                              ELSE [Resp("update_chunk", "500")
                                      EXCEPT !.id = chunk_id,
                                             !.returned = Returned("raised", {})]
                  /\ UNCHANGED <<libraries, documents, nextId>>

\* DELETE /chunks/{chunk_id}
DeleteChunk(chunk_id) ==
    /\ UNCHANGED conc
    /\ IF chunk_id \notin DOMAIN chunks
       THEN /\ resp' = [Resp("delete_chunk", "404") EXCEPT !.id = chunk_id]
            /\ UNCHANGED chunks
       ELSE /\ chunks' = WithoutChunks({chunk_id})
            /\ resp' = [Resp("delete_chunk", "200") EXCEPT !.id = chunk_id,
                                                         !.deleted = {chunk_id}]
    /\ UNCHANGED <<libraries, documents, nextId, linear, ball>>

\* DELETE /chunks/document/{document_id}
DeleteChunksByDocument(document_id) ==
    /\ UNCHANGED conc
    /\ chunks' = WithoutChunks(ChunksOfDocument(document_id))
    /\ resp' = [Resp("delete_chunks_by_document", "200")
                   EXCEPT !.deleted = ChunksOfDocument(document_id)]
    /\ UNCHANGED <<libraries, documents, nextId, linear, ball>>

\* DELETE /documents/{document_id}
DeleteDocument(document_id) ==
    /\ UNCHANGED conc
    /\ chunks' = WithoutChunks(ChunksOfDocument(document_id))
    /\ documents' = [d \in DOMAIN documents \ {document_id} |-> documents[d]]
    /\ resp' = [Resp("delete_document",
                     IF document_id \in DOMAIN documents THEN "200" ELSE "404")
                   EXCEPT !.id = document_id,
                          !.deleted = ChunksOfDocument(document_id),
                          !.returned = Returned(IF document_id \in DOMAIN documents
                                                THEN "True" ELSE "False", {})]
    /\ UNCHANGED <<libraries, nextId, linear, ball>>

\* DocumentService.delete_documents_by_library: the store after it, and the
\* chunk ids and document ids it returns
DeleteDocumentsOfLibrary(l) ==
    LET page == get_by_library_id(l)
        chunks_ids_deleted == UNION {ChunksOfDocument(d) : d \in page}
        documents_ids_deleted == DocumentsOfLibrary(l)
    IN [chunks    |-> WithoutChunks(chunks_ids_deleted),
        documents |-> [d \in DOMAIN documents \ documents_ids_deleted |-> documents[d]],
        chunks_ids_deleted    |-> chunks_ids_deleted,
        documents_ids_deleted |-> documents_ids_deleted]

\* DELETE /documents/library/{library_id}: the loop over the deleted chunk
\* ids calls index_manager.delete_vector
DeleteDocumentsByLibrary(library_id) ==
    /\ UNCHANGED conc
    /\ LET r == DeleteDocumentsOfLibrary(library_id)
           calls == {IndexBuilderDeleteVector(ball, linear, Uuid(c)) :
                        c \in r.chunks_ids_deleted}
       IN /\ chunks' = r.chunks
          /\ documents' = r.documents
          /\ resp' = [Resp("delete_documents_by_library",
                           IF \E c \in calls : c.raised # "" THEN "500" ELSE "200")
                         EXCEPT !.id = library_id,
                                !.deleted = r.chunks_ids_deleted,
                                !.returned = Returned("ids", r.chunks_ids_deleted)]
          /\ UNCHANGED <<libraries, nextId, linear, ball>>

\* DELETE /libraries/{library_id}: LibraryService.delete_library returns the
\* deleted Library, which the endpoint cannot unpack into its three names
\* (ValueError, status 500), so the loop over the chunk ids is not reached
DeleteLibrary(library_id) ==
    /\ UNCHANGED conc
    /\ IF library_id \notin libraries
       THEN /\ resp' = [Resp("delete_library", "404") EXCEPT !.id = library_id]
            /\ UNCHANGED <<store, linear, ball>>
       ELSE LET r == DeleteDocumentsOfLibrary(library_id)
            IN /\ chunks' = r.chunks
               /\ documents' = r.documents
               /\ libraries' = libraries \ {library_id}
               /\ resp' = [Resp("delete_library", "500")
                              EXCEPT !.id = library_id,
                                     !.deleted = r.chunks_ids_deleted,
                                     !.returned = Returned("Library", {})]
               /\ UNCHANGED <<nextId, linear, ball>>

\* POST /chunks/search with index_types = [index_type]: search_index
\* encodes the query, searches the index, resolves the hits through the
\* store, and search_chunks takes the text of each element; no exception
\* is caught on the way (status 500)
SearchIndex(query, k, index_type) ==
    /\ UNCHANGED conc
    /\ \E result \in IndexSearch(ball, linear, index_type, embed(query), k) :
          \E list_of_chunks \in {search_index_result(chunks, result.hits)} :
             \E t \in {ChunkTexts(list_of_chunks)} :
                resp' = [Resp("search", IF result.status = "ok" /\ ~t.raised
                                        THEN "200" ELSE "500")
                            EXCEPT !.vector = embed(query), !.index = index_type,
                                   !.k = k, !.result = result,
                                   !.list_of_chunks = list_of_chunks,
                                   !.texts = t.texts]
    /\ UNCHANGED <<store, linear, ball>>

LibIds == 1..2

\* the query texts of the search requests: one a stored text, one the
\* farthest from it
Queries == {0, MaxCoord}

Next ==
    \/ \E d \in DocIds, t \in Texts, commit \in BOOLEAN : CreateChunk(d, t, commit)
    \/ \E c \in ChunkIds, t \in Texts, commit \in BOOLEAN : UpdateChunk(c, t, commit)
    \/ \E c \in ChunkIds : DeleteChunk(c)
    \/ \E d \in DocIds : DeleteChunksByDocument(d)
    \/ \E d \in DocIds : DeleteDocument(d)
    \/ \E l \in LibIds : DeleteDocumentsByLibrary(l)
    \/ \E l \in LibIds : DeleteLibrary(l)
    \/ \E q \in Queries, k \in Ks, i \in IndexNames : SearchIndex(q, k, i)

Spec == Init /\ [][Next]_vars

\* ------------------------------------------------ the indexes on their own
\* LinearIndex and BallTree driven directly, as the index tests do: both
\* built empty, then add_vector and search with any vector
GoodVectors == {Vec(x, D) : x \in Coords}

BadVectors == {Vec(0, D + 1)}

IdxInit ==
    /\ libraries = {}
    /\ documents = <<>>
    /\ chunks = <<>>
    /\ nextId = 1
    /\ linear = LinearIndexInit(<<>>, <<>>)
    /\ ball = BallTreeInit(<<>>, <<>>)
    /\ resp = Resp("init", "")
    /\ OneAtATime

\* linear.add_vector(v, id); ball_tree.add_vector(v, id) with a fresh id
IdxAdd(v) ==
    /\ UNCHANGED conc
    /\ nextId <= MaxEntries
    /\ \E r \in {BallAddVector(ball, v, Uuid(nextId))} :
          /\ ball' = r.tree
          /\ linear' = LinearAddVector(linear, v, Uuid(nextId))
          /\ resp' = [Resp("add", IF r.raised THEN "ValueError" ELSE "ok")
                         EXCEPT !.id = nextId, !.vector = v]
    /\ nextId' = nextId + 1
    /\ UNCHANGED <<libraries, documents, chunks>>

\* index.search(q, k)
IdxSearch(q, k, index_type) ==
    /\ UNCHANGED conc
    /\ \E result \in IndexSearch(ball, linear, index_type, q, k) :
          resp' = [Resp("search", result.status)
                      EXCEPT !.vector = q, !.index = index_type,
                             !.k = k, !.result = result]
    /\ UNCHANGED <<store, linear, ball>>

\* index_builder.delete_vector(id)
IdxDelete(id) ==
    /\ UNCHANGED conc
    /\ id < nextId
    /\ LET r == IndexBuilderDeleteVector(ball, linear, Uuid(id))
       IN /\ ball' = r.ball
          /\ linear' = r.linear
          /\ resp' = [Resp("delete_vector", r.raised) EXCEPT !.id = id]
    /\ UNCHANGED store

IdxNext ==
    \/ \E v \in GoodVectors \cup BadVectors : IdxAdd(v)
    \/ \E q \in GoodVectors \cup BadVectors, k \in Ks, i \in IndexTypes : IdxSearch(q, k, i)
    \/ \E id \in 1..MaxEntries : IdxDelete(id)

SpecIdx == IdxInit /\ [][IdxNext]_vars

\* ------------------------------------------------- the start of the manager
\* IndexBuilder(session, ["ball_tree", "linear"]) over any store the tables
\* can hold: chunk.embedding is a JSON list of floats of any length
MaxStored == LeafSize + 1

Embeddings == GoodVectors \cup BadVectors \cup {<<>>}

\* IndexBuilder.__init__: build_index for "ball_tree", then for "linear".
\* With no chunk build_index returns self.index[index_type], a key that
\* does not exist yet (KeyError); BallTree._build takes np.mean over the
\* vectors, which raises ValueError when their shapes differ.  Every chunk
\* of the store goes into the lists, whatever its embedding.
IndexBuilderInit(chunkstore) ==
    IF DOMAIN chunkstore = {}
    THEN [ball |-> None, linear |-> None, raised |-> "KeyError"]
    ELSE IF ~SameShape(BuildVectors(chunkstore))
    THEN [ball |-> None, linear |-> None, raised |-> "ValueError"]
    ELSE [ball   |-> BallTreeInit(BuildVectors(chunkstore), BuildIds(chunkstore)),
          linear |-> LinearIndexInit(BuildVectors(chunkstore), BuildIds(chunkstore)),
          raised |-> ""]

\* before chunks.py is imported: a store and no index_manager
BuildInit ==
    \E n \in 0..MaxStored :
        \E e \in [1..n -> Embeddings] :
            /\ libraries = {1}
            /\ documents = [d \in 1..2 |-> 1]
            /\ chunks = [c \in 1..n |-> [document_id |-> InitDocument(c),
                                         text        |-> InitText(c),
                                         embedding   |-> e[c]]]
            /\ nextId = n + 1
            /\ linear = None
            /\ ball = None
            /\ resp = Resp("import", "")
            /\ OneAtATime

\* index_manager = IndexBuilder(next(get_session()), ["ball_tree", "linear"])
Construct ==
    /\ UNCHANGED conc
    /\ resp.op = "import"
    /\ \E r \in {IndexBuilderInit(chunks)} :
          /\ ball' = r.ball
          /\ linear' = r.linear
          /\ resp' = Resp("IndexBuilder", IF r.raised = "" THEN "ok" ELSE r.raised)
    /\ UNCHANGED store

\* index_manager.search_index(query, k, index_type) once the import went through
BuiltSearch(query, k, index_type) ==
    /\ UNCHANGED conc
    /\ resp.op # "import"
    /\ linear # None
    /\ \E result \in IndexSearch(ball, linear, index_type, embed(query), k) :
          resp' = [Resp("search", IF result.status = "ok" THEN "200" ELSE "500")
                      EXCEPT !.vector = embed(query), !.index = index_type,
                             !.k = k, !.result = result]
    /\ UNCHANGED <<store, linear, ball>>

BuildNext ==
    \/ Construct
    \/ \E q \in Texts, k \in Ks, i \in IndexTypes : BuiltSearch(q, k, i)

SpecBuild == BuildInit /\ [][BuildNext]_vars

\* ------------------------------------------------------ concurrent requests
\* The endpoints are plain functions, which the server runs on threads of
\* its pool: requests interleave at every step below.
ConcTexts == {0, MaxCoord}

\* k = 0 makes BallTree.search raise inside the with block
ConcKs == {0, MaxK}

\* a lock that never makes a thread wait
NeverHeld(l) == TRUE

\* with self._lock: the lock can be taken when no thread holds it
Free(l) == l = 0

\* chunks.py is being imported by thread 1: IndexBuilder.__init__ has made
\* self.index = {} and self._lock and is about to loop over index_types
ConcInit ==
    \E n \in 1..MaxInit :
        /\ libraries = {1}
        /\ documents = [d \in 1..2 |-> 1]
        /\ chunks = [c \in 1..n |-> [document_id |-> InitDocument(c),
                                     text        |-> InitText(c),
                                     embedding   |-> embed(InitText(c))]]
        /\ nextId = n + 1
        /\ linear = None
        /\ ball = None
        /\ resp = Resp("init", "")
        /\ lock = 0
        /\ requests = [t \in Threads |-> IF t = 1 THEN [Idle EXCEPT !.pc = "init"]
                                                   ELSE Idle]

Goto(t, pc) == [requests EXCEPT ![t].pc = pc]

\* the loop of IndexBuilder.__init__: build_index("ball_tree"), then
\* build_index("linear"); build_index does not take self._lock
BuildIndex(t) ==
    /\ requests[t].pc \in {"init", "build"}
    /\ IF requests[t].pc = "init"
       THEN /\ ball' = BallTreeInit(BuildVectors(chunks), BuildIds(chunks))
            /\ requests' = Goto(t, "build")
            /\ UNCHANGED linear
       ELSE /\ linear' = LinearIndexInit(BuildVectors(chunks), BuildIds(chunks))
            /\ requests' = Goto(t, "idle")
            /\ UNCHANGED ball
    /\ UNCHANGED <<store, resp, lock>>

\* the import is over and the server takes requests
Started == \A t \in Threads : requests[t].pc \notin {"init", "build"}

\* ChunkService.create_chunk(..., random_chunk=True): the chunk goes under
\* a document the store has (that of its first chunk)
create_random_chunk(text) ==
    create_chunk(chunks[CHOOSE c \in DOMAIN chunks : \A e \in DOMAIN chunks : c <= e].document_id,
                 text)

\* POST /chunks/random, first step: add_vector_by_text commits the chunk
\* and is about to encode its text
RandomChunk(t, text) ==
    /\ Started
    /\ requests[t].pc = "idle"
    /\ nextId <= MaxEntries
    /\ chunks' = [c \in DOMAIN chunks \cup {nextId} |->
                     IF c = nextId THEN create_random_chunk(text) ELSE chunks[c]]
    /\ nextId' = nextId + 1
    /\ requests' = [requests EXCEPT ![t] = [Idle EXCEPT !.pc = "add_encode",
                                                       !.id = nextId,
                                                       !.text = text]]
    /\ UNCHANGED <<libraries, documents, linear, ball, resp, lock>>

\* POST /chunks/search for one index name: search_index is entered and is
\* about to encode the query
SearchBegin(t, query, k, index_type) ==
    /\ Started
    /\ requests[t].pc = "idle"
    /\ requests' = [requests EXCEPT ![t] = [Idle EXCEPT !.pc = "search_encode",
                                                       !.text = query,
                                                       !.k = k,
                                                       !.index = index_type]]
    /\ UNCHANGED <<store, linear, ball, resp, lock>>

\* self.model.encode(text): the thread then goes on to the with statement
Encode(t) ==
    /\ requests[t].pc \in {"add_encode", "search_encode"}
    /\ requests' = [requests EXCEPT
                      ![t].vector = embed(requests[t].text),
                      ![t].pc = IF requests[t].pc = "add_encode" THEN "add_wait"
                                                                 ELSE "search_wait"]
    /\ UNCHANGED <<store, linear, ball, resp, lock>>

\* with self._lock: entered
Acquire(t) ==
    /\ requests[t].pc \in {"add_wait", "search_wait"}
    /\ Free(lock)
    /\ lock' = t
    /\ requests' = Goto(t, IF requests[t].pc = "add_wait" THEN "add_ball_tree"
                                                          ELSE "search")
    /\ UNCHANGED <<store, linear, ball, resp>>

\* add_vector, first pass of the loop: self.index["ball_tree"].add_vector;
\* an exception leaves the with block
AddBallTree(t) ==
    /\ requests[t].pc = "add_ball_tree"
    /\ \E r \in {BallAddVector(ball, requests[t].vector, Uuid(requests[t].id))} :
          /\ ball' = r.tree
          /\ requests' = [requests EXCEPT
                            ![t].pc = IF r.raised THEN "add_exit" ELSE "add_linear",
                            ![t].status = IF r.raised THEN "400" ELSE "200"]
    /\ UNCHANGED <<store, linear, resp, lock>>

\* add_vector, second pass of the loop: self.index["linear"].add_vector
AddLinear(t) ==
    /\ requests[t].pc = "add_linear"
    /\ linear' = LinearAddVector(linear, requests[t].vector, Uuid(requests[t].id))
    /\ requests' = Goto(t, "add_exit")
    /\ UNCHANGED <<store, ball, resp, lock>>

\* search_index under the lock: self.index[index_type].search
SearchRun(t) ==
    /\ requests[t].pc = "search"
    /\ \E result \in IndexSearch(ball, linear, requests[t].index,
                                  requests[t].vector, requests[t].k) :
          requests' = [requests EXCEPT
                         ![t].pc = "search_exit",
                         ![t].result = result,
                         ![t].status = IF result.status = "ok" THEN "200" ELSE "500"]
    /\ UNCHANGED <<store, linear, ball, resp, lock>>

\* a with block that is left with the lock still held
StillHeld(t) == t

\* the lock once thread t has left its with block, by its end or by an
\* exception: free
Unlocked(t) == 0

\* the with block is left.  add_vector then returns and the request is
\* answered; so it is when the search raised; a search that returned goes
\* on to resolve its hits
Release(t) ==
    /\ requests[t].pc \in {"add_exit", "search_exit"}
    /\ lock' = Unlocked(t)
    /\ requests' = IF requests[t].pc = "search_exit" /\ requests[t].result.status = "ok"
                   THEN Goto(t, "resolve")
                   ELSE [requests EXCEPT ![t] = [Idle EXCEPT !.status = requests[t].status]]
    /\ UNCHANGED <<store, linear, ball, resp>>

\* search_index after the with block: the loop that resolves each hit
\* through chunk_service.get_chunk; search_chunks then reads the text of
\* each element, which a stub does not have (AttributeError)
ResolveHits(t) ==
    /\ requests[t].pc = "resolve"
    /\ \E texts \in {ChunkTexts(search_index_result(chunks, requests[t].result.hits))} :
          requests' = [requests EXCEPT
                         ![t] = [Idle EXCEPT !.status = IF texts.raised THEN "500"
                                                                        ELSE "200"]]
    /\ UNCHANGED <<store, linear, ball, resp, lock>>

ConcNext ==
    \/ \E t \in Threads : BuildIndex(t)
    \/ \E t \in Threads, text \in ConcTexts : RandomChunk(t, text)
    \/ \E t \in Threads, q \in ConcTexts, k \in ConcKs, i \in IndexTypes :
          SearchBegin(t, q, k, i)
    \/ \E t \in Threads : Encode(t)
    \/ \E t \in Threads : Acquire(t)
    \/ \E t \in Threads : AddBallTree(t)
    \/ \E t \in Threads : AddLinear(t)
    \/ \E t \in Threads : SearchRun(t)
    \/ \E t \in Threads : Release(t)
    \/ \E t \in Threads : ResolveHits(t)

SpecConc == ConcInit /\ [][ConcNext]_vars

\* the next step of thread t inside a request or the startup build (its pc
\* enables at most one of them)
Step(t) ==
    \/ BuildIndex(t)
    \/ Encode(t)
    \/ AddBallTree(t)
    \/ AddLinear(t)
    \/ SearchRun(t)
    \/ Release(t)
    \/ ResolveHits(t)

\* thread t has a next step to take: ENABLED <<Step(t)>>_vars, since each
\* step is enabled wherever the pc is at it and changes the pc
Stepping(t) ==
    requests[t].pc \in {"init", "build", "add_encode", "search_encode",
                        "add_ball_tree", "add_linear", "add_exit",
                        "search", "search_exit", "resolve"}

\* fair scheduling: a thread waiting at the with statement gets the lock if
\* the lock is free again and again, SF_vars(Acquire(t)); a thread that can
\* take its next step takes it, WF_vars(Step(t)), in the form
\* []<>~ENABLED \/ []<><<Step(t)>>_vars with ENABLED as the pc test.  New
\* requests need not arrive.
Fairness ==
    \A t \in Threads :
        /\ SF_vars(Acquire(t))
        /\ []<>(~Stepping(t)) \/ []<><<Step(t)>>_vars

SpecLive == SpecConc /\ Fairness

\* ----------------------------------------------------- what an index holds
\* the number of entries of a list of ids that denote chunk c
Count(ids, c) == Cardinality({i \in 1..Len(ids) : ids[i].u = c})

\* the ids a result lists, as chunk ids
HitIds(r) == {r.hits[j][1].u : j \in 1..Len(r.hits)}

\* every stored vector has the dimension D
Clean ==
    /\ \A i \in 1..Len(linear.vectors) : Len(linear.vectors[i]) = D
    /\ \A i \in 1..Len(ball.vectors) : Len(ball.vectors[i]) = D

\* positions of the entries of chunk c in the linear index / in the tree
LinearVectorsOf(c) ==
    {linear.vectors[i] : i \in {j \in 1..Len(linear.ids) : linear.ids[j].u = c}}

BallVectorsOf(c) ==
    {TreePoints(ball.root)[i] :
        i \in {j \in 1..Len(TreeIds(ball.root)) : TreeIds(ball.root)[j].u = c}}

\* the Euclidean distances from q to the vectors stored for the hits of r
TrueDistances(r, q) ==
    [j \in 1..Len(r.hits) |->
        Dist(q, CHOOSE v \in LinearVectorsOf(r.hits[j][1].u) : TRUE)]

Ascending(d) == \A i, j \in 1..Len(d) : i < j => d[i] <= d[j]

\* ------------------------------------------------------------------ C1
\* C1: after any committed chunk create, update and delete requests, each
\* index holds at most one entry per committed chunk id.
C1_AtMostOneEntryPerChunk ==
    \A c \in DOMAIN chunks :
        /\ Count(linear.ids, c) <= 1
        /\ Count(TreeIds(ball.root), c) <= 1

\* ------------------------------------------------------------------ C2
\* C2: after DELETE /libraries/{id} or DELETE /documents/{id} has been
\* processed, no Search over any index returns the id of a chunk that was
\* under that library or document.
C2_CascadeConsistency ==
    resp.op \in {"delete_library", "delete_document"} =>
        \A c \in resp.deleted : \A i \in IndexTypes, q \in Texts, k \in Ks :
            \A r \in IndexSearch(ball, linear, i, embed(q), k) : c \notin HitIds(r)

\* ------------------------------------------------------------------ C3
\* C3: after a successful DELETE /chunks/{id} or DELETE /chunks/document/{doc_id},
\* no index holds an entry for a chunk the request deleted.
C3_DeletedChunksLeaveIndexes ==
    (resp.op \in {"delete_chunk", "delete_chunks_by_document"} /\ resp.status = "200") =>
        \A c \in resp.deleted :
            /\ Count(linear.ids, c) = 0
            /\ Count(ball.ids, c) = 0
            /\ Count(TreeIds(ball.root), c) = 0

\* ------------------------------------------------------------------ C4
\* C4: after Add(v, id) and then Delete(id), the delete has reported whether
\* it removed an entry and no Search(v, k) on any index returns id.
C4_DeleteThenSearch ==
    resp.op = "delete_vector" =>
        /\ resp.status \in {"True", "False"}
        /\ \A i \in IndexTypes, q \in GoodVectors \cup BadVectors, k \in Ks :
              \A r \in IndexSearch(ball, linear, i, q, k) : resp.id \notin HitIds(r)

\* ------------------------------------------------------------------ C5
\* C5: for every index type, every stored point set of dimension D, every
\* query of dimension D and every k (here k >= 1), Search returns min(k, n)
\* entries, the nearest ones, nearest first.
C5_NearestFirst ==
    Clean =>
        \A i \in IndexTypes, q \in GoodVectors, k \in 1..MaxK :
            \A r \in IndexSearch(ball, linear, i, q, k) :
                /\ r.status = "ok"
                /\ Len(r.hits) = Min(k, Len(linear.vectors))
                /\ Ascending(TrueDistances(r, q))
                /\ \A m \in 1..Len(linear.vectors) :
                      linear.ids[m].u \notin HitIds(r) =>
                          \A j \in 1..Len(r.hits) :
                              TrueDistances(r, q)[j] <= Dist(q, linear.vectors[m])

\* ------------------------------------------------------------------ C6
\* C6: for every point set P, query q and k (here k >= 1), BallTree(P).search
\* and LinearIndex(P).search list the same ids position by position, up to
\* entries at equal distance; in particular the first positions agree.
C6_BruteForceOracle ==
    Clean =>
        \A q \in GoodVectors, k \in 1..MaxK :
            \A b \in {BallSearch(BallTreeInit(linear.vectors, linear.ids), q, k)} :
               \A l \in LinearSearch(LinearIndexInit(linear.vectors, linear.ids), q, k) :
                  /\ b.status = l.status
                  /\ Len(b.hits) = Len(l.hits)
                  /\ \A j \in 1..Len(l.hits) :
                        \/ b.hits[j][1].u = l.hits[j][1].u
                        \/ TrueDistances(b, q)[j] = TrueDistances(l, q)[j]

\* ------------------------------------------------------------------ C7
\* the last call was Add(v, id) with a vector of dimension D into an index
\* whose vectors all have dimension D
AddedGood == resp.op = "add" /\ Len(resp.vector) = D /\ Clean

C8_ReplaceOnUpdate ==
    (resp.op = "update_chunk" /\ resp.status = "200") =>
        /\ LinearVectorsOf(resp.id) = {chunks[resp.id].embedding}
        /\ BallVectorsOf(resp.id) = {chunks[resp.id].embedding}

\* ------------------------------------------------------------------ C9
\* the distances a result lists, in order
Distances(r) == [j \in 1..Len(r.hits) |-> r.hits[j][2]]

\* the index a batch build over the tree's stored vectors gives
Rebuilt == BallTreeInit(ball.vectors, ball.ids)

\* C9: for every list of vectors of dimension D, an index filled from empty
\* by Add and an index built in one batch from the same list answer every
\* query and every k alike: the same outcome, the same distances position by
\* position, no id twice, and every listed id stored at the distance listed
\* for it (so the two results differ at most in entries at equal distance).
C9_RebuildEquivalence ==
    (resp.op = "add" /\ Clean) =>
        \A q \in GoodVectors \cup BadVectors, k \in Ks :
            /\ \A inc \in {BallSearch(ball, q, k)}, bat \in {BallSearch(Rebuilt, q, k)} :
                  /\ inc.status = bat.status
                  /\ Distances(inc) = Distances(bat)
                  /\ Cardinality(HitIds(inc)) = Len(inc.hits)
                  /\ Cardinality(HitIds(bat)) = Len(bat.hits)
                  /\ \A j \in 1..Len(inc.hits) :
                        -inc.hits[j][2] = TrueDistances(inc, q)[j]
                  /\ \A j \in 1..Len(bat.hits) :
                        -bat.hits[j][2] = TrueDistances(bat, q)[j]
            /\ LinearSearch(linear, q, k)
                   = LinearSearch(LinearIndexInit(linear.vectors, linear.ids), q, k)

\* the online tree and the batch tree over the same vectors differ in shape
C9_Witness ==
    /\ Clean
    /\ resp.op = "add"
    /\ Len(ball.vectors) = MaxEntries
    /\ ~is_leaf(ball.root)
    /\ ball.root # Rebuilt.root

\* ----------------------------------------------------------------- C10
\* C10: an Add or a Search whose vector has a length other than D returns
\* an error and leaves both indexes as they were.
C10_DimensionInvariant ==
    [][(resp'.op \in {"add", "search"} /\ Len(resp'.vector) # D) =>
           /\ resp'.status \notin {"ok"}
           /\ linear' = linear
           /\ ball' = ball]_vars

\* ----------------------------------------------------------------- C13
\* C13: when POST /chunks/ has answered 200, the chunk's vector is in both
\* indexes under the chunk's id and a Search for it finds an entry at
\* distance zero in each; and every chunk of the store keeps its embedding
\* in both indexes from then on.
C13_ReadYourWrite ==
    /\ (resp.op = "create_chunk" /\ resp.status = "200") =>
          /\ resp.vector \in LinearVectorsOf(resp.id)
          /\ resp.vector \in BallVectorsOf(resp.id)
          /\ \A i \in IndexTypes :
                \A r \in IndexSearch(ball, linear, i, resp.vector, 1) :
                   r.status = "ok" /\ Len(r.hits) = 1 /\ r.hits[1][2] = 0
    /\ \A c \in DOMAIN chunks :
          /\ chunks[c].embedding \in LinearVectorsOf(c)
          /\ chunks[c].embedding \in BallVectorsOf(c)

\* a create has answered 200 and the tree it went into had been split
C13_Witness ==
    /\ resp.op = "create_chunk"
    /\ resp.status = "200"
    /\ resp.id \in DOMAIN chunks
    /\ ~is_leaf(ball.root)
    /\ resp.vector \in BallVectorsOf(resp.id)

\* ----------------------------------------------------------------- C15
\* C15: each cascade delete of the service layer (delete_document,
\* delete_documents_by_library, delete_library) hands back to the endpoint
\* the list of the chunk ids it removed from the store.
C15_CascadeReturnsChunkIds ==
    (resp.op \in {"delete_document", "delete_documents_by_library", "delete_library"}
        /\ resp.status # "404") =>
        /\ resp.returned.kind = "ids"
        /\ resp.returned.ids = resp.deleted

\* ----------------------------------------------------------------- C16
\* C16: DELETE /libraries/{id} on a library of the store answers 204, and
\* after it no document of the library and no chunk of those documents is
\* left in the store.
C16_LibraryDeleteCascades ==
    [][(resp'.op = "delete_library" /\ resp'.id \in libraries) =>
          /\ resp'.status = "204"
          /\ \A d \in DOMAIN documents :
                documents[d] = resp'.id =>
                    /\ d \notin DOMAIN documents'
                    /\ \A c \in ChunksOfDocument(d) : c \notin DOMAIN chunks']_vars

\* ----------------------------------------------------------------- C19
\* C19: a search that names an index that is not configured is answered
\* with a client error status, and no index changes.
C19_UnknownIndexIsClientError ==
    [][(resp'.op = "search" /\ resp'.index \notin IndexTypes) =>
          /\ resp'.status \in {"400", "404"}
          /\ linear' = linear
          /\ ball' = ball]_vars

\* ----------------------------------------------------------------- C20
\* C20: when the store commit of a chunk create or update fails, both
\* indexes are after the request what they were before it.
C20_NoIndexMutationOnFailedCommit ==
    [][(resp'.op \in {"create_chunk", "update_chunk"}
           /\ resp'.returned.kind = "raised") =>
          /\ linear' = linear
          /\ ball' = ball]_vars

\* the commit of an update of a chunk of the store has failed
C20_Witness ==
    /\ resp.op = "update_chunk"
    /\ resp.returned.kind = "raised"
    /\ resp.id \in DOMAIN chunks
    /\ linear.vectors # <<>>

\* ----------------------------------------------------------------- C17
\* C17: once the IndexBuilder is constructed, each index holds exactly one
\* entry for every chunk of the store whose embedding has length D and no
\* entry for a chunk whose embedding is empty or of another length.
C17_StartupBuild ==
    (resp.op # "import" /\ linear # None) =>
        \A c \in DOMAIN chunks :
            IF Len(chunks[c].embedding) = D
            THEN Count(linear.ids, c) = 1 /\ Count(TreeIds(ball.root), c) = 1
            ELSE Count(linear.ids, c) = 0 /\ Count(TreeIds(ball.root), c) = 0

\* ----------------------------------------------------------------- C18
\* C18: when the store holds no chunk at startup, the IndexBuilder is
\* constructed with an empty index under each configured name, and
\* search_index on each of them gives the empty list and no error; so do
\* LinearIndex and BallTree built over no vector.
C18_EmptyIndexSearch ==
    /\ \A q \in GoodVectors, k \in Ks :
          /\ LinearSearch(LinearIndexInit(<<>>, <<>>), q, k) = {Ok(<<>>)}
          /\ BallSearch(BallTreeInit(<<>>, <<>>), q, k) = Ok(<<>>)
    /\ (resp.op # "import" /\ DOMAIN chunks = {}) =>
          /\ resp.status \in {"ok", "200"}
          /\ \A i \in IndexTypes, q \in Texts, k \in Ks :
                IndexSearch(ball, linear, i, embed(q), k) = {Ok(<<>>)}

\* ----------------------------------------------------------------- C11
\* a thread is at work inside the index structures
Inside(t) ==
    requests[t].pc \in {"build", "add_ball_tree", "add_linear", "add_exit",
                        "search", "search_exit"}

\* C11: whichever of add_vector, search_index and build_index a thread is
\* executing, it holds the one lock while it is inside the indexes, so no
\* two threads are inside at once.
C11_MutexSerializes ==
    /\ \A t \in Threads : Inside(t) => lock = t
    /\ Cardinality({t \in Threads : Inside(t)}) <= 1

\* ----------------------------------------------------------------- C12
\* the chunk ids a list of index ids denotes
IdSet(ids) == {ids[j].u : j \in 1..Len(ids)}

\* the chunks whose add_vector has not left the lock yet
InFlight ==
    {requests[u].id : u \in {v \in Threads : requests[v].pc \in
                                {"add_encode", "add_wait", "add_ball_tree",
                                 "add_linear", "add_exit"}}}

\* the chunks of the startup build and those whose add_vector is over
Released == DOMAIN chunks \ InFlight

\* C12: when a search has the lock, each index holds exactly the vectors
\* whose add_vector has left the lock, the same in both indexes, and none
\* of an add_vector still waiting; the result it leaves with is a search
\* of that state.
C12_SearchSnapshot ==
    \A t \in Threads :
        /\ requests[t].pc \in {"search", "search_exit"} =>
              /\ IdSet(linear.ids) = Released
              /\ IdSet(TreeIds(ball.root)) = Released
        /\ requests[t].pc = "search_exit" =>
              /\ requests[t].result \in IndexSearch(ball, linear, requests[t].index,
                                                     requests[t].vector, requests[t].k)
              /\ HitIds(requests[t].result) \subseteq Released

\* a search holds the lock while an add_vector waits for it, after another
\* add_vector has gone through
C12_Witness ==
    \E t, u \in Threads :
        /\ requests[t].pc = "search"
        /\ requests[u].pc = "add_wait"
        /\ \E j \in 1..Len(linear.ids) : IsUuid(linear.ids[j])

\* ----------------------------------------------------------------- C14
\* C14: when no request is in progress, every request has been answered
\* 200 and each index holds as many entries as the store holds chunks.
C14_QuiescentCounts ==
    (Started /\ \A t \in Threads : requests[t].pc = "idle") =>
        /\ \A t \in Threads : requests[t].status \in {"", "200"}
        /\ Len(linear.ids) = Cardinality(DOMAIN chunks)
        /\ Len(ball.ids) = Cardinality(DOMAIN chunks)
        /\ Len(TreeIds(ball.root)) = Cardinality(DOMAIN chunks)

\* ----------------------------------------------------------------- C21
\* every point in a leaf under node lies in the ball of node, and so for
\* every node below it
RECURSIVE InBall(_)
InBall(node) ==
    IsNone(node) \/
        /\ \A pts \in {TreePoints(node)} :
              \A i \in 1..Len(pts) : Dist(pts[i], node.centroid) <= node.radius
        /\ InBall(node.left)
        /\ InBall(node.right)

\* C21: in the tree grown by online inserts (leaf splits included), in the
\* tree a batch build gives over the same vectors, and in that batch tree
\* after one more insert, every point in a leaf under a node lies within the
\* node's radius of the node's centroid.
C21_BallInvariant ==
    Clean =>
        /\ InBall(ball.root)
        /\ \A batch \in {Rebuilt} :
              /\ InBall(batch.root)
              /\ \A v \in GoodVectors :
                    \A r \in {BallAddVector(batch, v, Uuid(nextId))} :
                       ~r.raised /\ InBall(r.tree.root)

\* an insert went below an internal node whose child is internal too, so
\* the radius of the root comes from the balls of its children
C21_Witness ==
    /\ Clean
    /\ resp.op = "add"
    /\ resp.status = "ok"
    /\ ~is_leaf(ball.root)
    /\ (~is_leaf(ball.root.left) \/ ~is_leaf(ball.root.right))
    /\ ball.root.radius > 0

\* ----------------------------------------------------------------- C22
\* every leaf under node holds between one and LeafSize points; every
\* internal node holds none and has both children
RECURSIVE WithinBudget(_)
WithinBudget(node) ==
    IsNone(node) \/
        IF is_leaf(node)
        THEN Len(node.points) \in 1..LeafSize /\ Len(node.ids) = Len(node.points)
        ELSE /\ node.points = <<>>
             /\ node.ids = <<>>
             /\ ~IsNone(node.left) /\ ~IsNone(node.right)
             /\ TreePoints(node.left) # <<>> /\ TreePoints(node.right) # <<>>
             /\ WithinBudget(node.left)
             /\ WithinBudget(node.right)

\* C22: after the batch build and after every add_vector that went through,
\* every leaf of the tree holds at most leaf_size points, and a node that
\* was split is an internal node without points over two non-empty children.
C22_LeafBudget == Clean => WithinBudget(ball.root)

\* ----------------------------------------------------------------- C23
\* the node _build makes over the stored vectors before it splits it
Unsplit == BallTreeNode(ball.vectors, ball.ids)

\* the two pivots of a split of points: the positions of the farthest pair
Pivots(points) == FarthestPair(points)

\* the positions that go left when the points nearer to the first pivot do,
\* and those at equal distance go left or not as tiesLeft says
GoLeft(points, tiesLeft) ==
    {i \in 1..Len(points) :
        \/ Dist(points[i], points[Pivots(points)[1]])
              < Dist(points[i], points[Pivots(points)[2]])
        \/ /\ tiesLeft
           /\ Dist(points[i], points[Pivots(points)[1]])
                 = Dist(points[i], points[Pivots(points)[2]])}

\* node was split with the positions in L on the left, or at the median
\* index when L or its complement is empty; both children hold points
SplitAs(split, L) ==
    LET n == Len(split.points)
        left == IF L = {} \/ L = 1..n THEN 1..(n \div 2) ELSE L
    IN /\ split.left.points = Pick(split.points, left, 1)
       /\ split.left.ids = Pick(split.ids, left, 1)
       /\ split.right.points = Pick(split.points, (1..n) \ left, 1)
       /\ split.right.ids = Pick(split.ids, (1..n) \ left, 1)
       /\ split.left.points # <<>>
       /\ split.right.points # <<>>

\* the stored vectors make a node that a split applies to
Splittable == Clean /\ Len(ball.vectors) >= 2

\* C23 (as claimed): a split sends each point to the side of the closer
\* pivot and a point equidistant from both to the left; when one side would
\* be empty it cuts at the median index; both children are non-empty.
C23_TiesGoLeft ==
    Splittable => SplitAs(SplitNode(Unsplit), GoLeft(ball.vectors, TRUE))

\* C23: a split sends each point strictly closer to the first pivot to the
\* left and every other point, those equidistant from both pivots included,
\* to the right; when one side would be empty it cuts at the median index;
\* both children are non-empty.
C23_TiesGoRight ==
    Splittable => SplitAs(SplitNode(Unsplit), GoLeft(ball.vectors, FALSE))

\* three stored points, the middle one equidistant from the two pivots
C23_Witness ==
    /\ Splittable
    /\ Len(ball.vectors) = 3
    /\ GoLeft(ball.vectors, TRUE) # GoLeft(ball.vectors, FALSE)
    /\ GoLeft(ball.vectors, FALSE) # {}
    /\ SplitNode(Unsplit).right.points # <<>>

\* ----------------------------------------------------------------- C24
\* C24: a thread that is computing an embedding (model.encode) or resolving
\* hits through the chunk store does not hold the IndexBuilder lock, and the
\* thread that holds the lock is at an index operation of its with block.
C24_LockOnlyAroundIndex ==
    \A t \in Threads :
        /\ requests[t].pc \in {"add_encode", "search_encode", "resolve"} => lock # t
        /\ lock = t => requests[t].pc \in {"add_ball_tree", "add_linear", "add_exit",
                                           "search", "search_exit"}

\* one thread resolves its hits while the other holds the lock
C24_Witness ==
    \E t, u \in Threads :
        /\ requests[t].pc = "resolve"
        /\ requests[t].result.hits # <<>>
        /\ lock = u
        /\ u # t

\* ----------------------------------------------------------------- C25
\* C25: the list search_index returns has one element per (id, distance) hit
\* of the index search, in the order of the hits: the chunk of that id when
\* the store has it, otherwise a dict of that id and that distance.
C25_OneElementPerHit ==
    (resp.op = "search" /\ resp.result.status = "ok") =>
        /\ Len(resp.list_of_chunks) = Len(resp.result.hits)
        /\ \A j \in 1..Len(resp.result.hits) :
              IF resp.result.hits[j][1].u \in DOMAIN chunks
              THEN /\ resp.list_of_chunks[j].kind = "chunk"
                   /\ resp.list_of_chunks[j].id = resp.result.hits[j][1].u
                   /\ resp.list_of_chunks[j].text = chunks[resp.result.hits[j][1].u].text
              ELSE /\ resp.list_of_chunks[j].kind = "dict"
                   /\ resp.list_of_chunks[j].id = resp.result.hits[j][1]
                   /\ resp.list_of_chunks[j].distance = resp.result.hits[j][2]

\* a search hit a chunk of the store and a chunk deleted from the store
C25_Witness ==
    /\ resp.op = "search"
    /\ resp.result.status = "ok"
    /\ \E i, j \in 1..Len(resp.list_of_chunks) :
          /\ resp.list_of_chunks[i].kind = "dict"
          /\ resp.list_of_chunks[j].kind = "chunk"

\* ----------------------------------------------------------------- C26
\* the linear index, the flat lists of the tree and the leaves of the tree
\* hold every id the same number of times
SameIds(bt, lin) ==
    \A c \in IdSet(lin.ids) \cup IdSet(bt.ids) \cup IdSet(TreeIds(bt.root)) :
        /\ Count(lin.ids, c) = Count(bt.ids, c)
        /\ Count(lin.ids, c) = Count(TreeIds(bt.root), c)

\* C26: from indexes that hold the same ids, IndexBuilder.add_vector of any
\* vector leaves indexes that hold the same ids: the new id once in the
\* linear index, in the flat lists of the tree and in its leaves, or, when
\* an index rejects the vector or raises on it, both indexes as they were.
C26_FanOutAtomic ==
    SameIds(ball, linear) =>
        \A v \in GoodVectors \cup BadVectors :
            \A r \in {IndexBuilderAddVector(ball, linear, v, Uuid(nextId))} :
                /\ SameIds(r.ball, r.linear)
                /\ \/ /\ ~r.raised
                      /\ Count(r.linear.ids, nextId) = 1
                   \/ /\ r.ball = ball
                      /\ r.linear = linear

\* ----------------------------------------------------------------- C27
\* C27: on every index holding n vectors of dimension D, search(query, k)
\* with a query of dimension D and any k >= 0 returns min(k, n) entries and
\* does not raise; with k = 0 it returns the empty list.
C27_ExactlyMinKN ==
    Clean =>
        \A i \in IndexTypes, q \in GoodVectors, k \in Ks :
            \A r \in IndexSearch(ball, linear, i, q, k) :
                /\ r.status = "ok"
                /\ Len(r.hits) = Min(k, IF i = "linear" THEN Len(linear.vectors)
                                                        ELSE Len(ball.vectors))

\* ----------------------------------------------------------------- C28
\* C28: every (id, distance) pair a search returns carries a distance that
\* is not negative and is the Euclidean distance from the query to the
\* vector stored for that id.
C28_DistanceIsEuclidean ==
    Clean =>
        \A i \in IndexTypes, q \in GoodVectors, k \in 1..MaxK :
            \A r \in IndexSearch(ball, linear, i, q, k) :
                r.status = "ok" =>
                    \A j \in 1..Len(r.hits) :
                        /\ r.hits[j][2] >= 0
                        /\ \E v \in LinearVectorsOf(r.hits[j][1].u) :
                              r.hits[j][2] = Dist(q, v)

\* ----------------------------------------------------------------- C29
\* thread t is at the with statement of add_vector or search_index
Waiting(t) == requests[t].pc \in {"add_wait", "search_wait"}

Resolvable(hits) ==
    Pick(hits, {j \in 1..Len(hits) : hits[j][1].u \in DOMAIN chunks}, 1)

\* C30: in every state of store and indexes, those where an index holds the
\* id of a chunk the store no longer has included, POST /chunks/search over
\* a configured index name (with k >= 1) answers 200 with one text per hit
\* whose chunk the store holds.
C30_SearchEndpointCompletes ==
    (resp.op = "search" /\ resp.index \in IndexTypes /\ resp.k >= 1) =>
        /\ resp.status = "200"
        /\ \A kept \in {Resolvable(resp.result.hits)} :
              resp.texts = [j \in 1..Len(kept) |-> chunks[kept[j][1].u].text]
====
